---- MODULE Spec2Model ----
(***************************************************************************)
(* A model of the two registration scripts of token-optimizer-mcp:         *)
(*                                                                         *)
(*   add_monitoring.py             patches src/server/index.ts in place    *)
(*                                 with four anchor replacements;          *)
(*   register-all-missing-tools.py walks the tool manifest, reads each     *)
(*                                 tool module and writes three files of   *)
(*                                 generated registration code.            *)
(*                                                                         *)
(* Text is a sequence of chunks.  A chunk is a literal piece of text that  *)
(* the scripts never split: the pieces the anchors and their replacements  *)
(* are made of, single characters of slugs and identifiers, the fragments  *)
(* the generator emits, and "\n".                                          *)
(***************************************************************************)
EXTENDS Integers, Sequences, FiniteSets, TLC

VARIABLES
    \* add_monitoring.py
    file,        \* src/server/index.ts on disk
    content,     \* the script's buffer
    pc,          \* the statement the script is at
    log,         \* the lines printed so far by the running script
    run,         \* how many times the script has been started
    inputs,      \* history: the document each run read
    \* register-all-missing-tools.py
    manifest,    \* UNREGISTERED_TOOLS, in insertion order
    fs,          \* the file system: path -> content, or Missing
    gpc,         \* the statement main() is at
    cat,         \* index of the category the loop of main() is at
    all_imports, \* main()'s three lists of strings
    all_defs,
    all_cases,
    out,         \* the lines printed so far
    \* kebab_to_pascal / kebab_to_camel, called on their own
    slug,
    pascal,
    camel,
    npc

patchVars == <<file, content, pc, log, run, inputs>>
genVars   == <<manifest, fs, gpc, cat, all_imports, all_defs, all_cases, out>>
nameVars  == <<slug, pascal, camel, npc>>
vars      == <<patchVars, genVars, nameVars>>

----------------------------------------------------------------------------
(* Bounds of the model.                                                    *)

MaxSegs == 4      \* pieces a target document is put together from
MaxRuns == 2      \* runs of add_monitoring.py in a row
MaxCats == 2      \* categories in a manifest
MaxTools == 2     \* tools in a category
MaxSlugLen == 4   \* characters of a slug handed to the case conversions

----------------------------------------------------------------------------
(* Sequences of chunks.                                                    *)

IsPrefix(p, s) == Len(p) <= Len(s) /\ SubSeq(s, 1, Len(p)) = p

IsSuffix(p, s) == Len(p) <= Len(s) /\ SubSeq(s, Len(s) - Len(p) + 1, Len(s)) = p

Drop(s, n) == SubSeq(s, n + 1, Len(s))

\* the positions at which a occurs in s
Positions(a, s) == {i \in 1..(Len(s) - Len(a) + 1) : SubSeq(s, i, i + Len(a) - 1) = a}

Occurs(a, s) == Positions(a, s) # {}

CountOf(a, s) == Cardinality(Positions(a, s))

Min(S) == CHOOSE x \in S : \A y \in S : x <= y

RECURSIVE Concat(_)
Concat(ss) == IF ss = <<>> THEN <<>> ELSE Head(ss) \o Concat(Tail(ss))

\* str.replace(old, new) with a count of one: only the first occurrence
ReplaceFirst(s, old, new) ==
    IF Occurs(old, s)
    THEN LET i == Min(Positions(old, s))
         IN SubSeq(s, 1, i - 1) \o new \o Drop(s, i + Len(old) - 1)
    ELSE s

\* Python's str.replace(old, new), old non-empty: every non-overlapping
\* occurrence, scanning from the left
RECURSIVE str_replace(_, _, _)
str_replace(s, old, new) ==
    IF Len(s) < Len(old) THEN s
    ELSE IF IsPrefix(old, s) THEN new \o str_replace(Drop(s, Len(old)), old, new)
    ELSE <<Head(s)>> \o str_replace(Tail(s), old, new)

----------------------------------------------------------------------------
(* add_monitoring.py: the literals.  Each marker and each replacement is   *)
(* the concatenation of the chunks below, character for character; the     *)
(* four generated blocks are abbreviated.                                  *)

SmartCacheFrom == "} from '../tools/advanced-caching/smart-cache.js';\n\n"
ApiDbComment == "// API & Database tools"
MonitoringImports == "// Monitoring Tools (3 tools)\nimport {getAlertManager..MONITORING_INTEGRATION_TOOL_DEFINITION} from ..\n\n"
SmartWebSocketInit == "const smartWebSocket = getSmartWebSocket(cache, tokenCounter, metrics);\n\n"
FileOpsComment == "// File operations"
MonitoringInits == "// Initialize monitoring tools\nconst alertManager..monitoringIntegration = ..;\n\n"
SmartWebSocketDef == "      SMART_WEBSOCKET_TOOL_DEFINITION,\n"
Indent == "      "
MonitoringDefs == "      // Monitoring tools\n      ALERT_MANAGER_TOOL_DEFINITION,..MONITORING_INTEGRATION_TOOL_DEFINITION,\n"
DisabledTail == " tools disabled in live-test config"
MonitoringHandlers == "\n      case 'alert_manager': {..}\n\n      case 'metric_collector': {..}\n\n      case 'monitoring_integration': {..}\n\n"
OtherText == "..."

imports_marker == <<SmartCacheFrom, ApiDbComment>>

\* slip: the imports replacement forgets the comment line that closes it
monitoring_imports_unclosed == <<SmartCacheFrom, MonitoringImports>>

monitoring_imports == <<SmartCacheFrom, MonitoringImports, ApiDbComment>>

init_marker == <<SmartWebSocketInit, FileOpsComment>>
monitoring_inits == <<SmartWebSocketInit, MonitoringInits, FileOpsComment>>

def_marker == <<SmartWebSocketDef, Indent, FileOpsComment>>
monitoring_defs == <<SmartWebSocketDef, MonitoringDefs, Indent, FileOpsComment>>

handler_marker == <<Indent, FileOpsComment, DisabledTail>>

\* slip: the handlers replacement loses the end of the comment line it was
\* anchored on, so the marker is used up by the patch
monitoring_handlers_marker_cut == <<MonitoringHandlers, Indent, FileOpsComment>>

monitoring_handlers == <<MonitoringHandlers, Indent, FileOpsComment, DisabledTail>>

Steps == <<"imports", "inits", "defs", "handlers">>

Marker(i) == <<imports_marker, init_marker, def_marker, handler_marker>>[i]

Replacement(i) ==
    <<monitoring_imports, monitoring_inits, monitoring_defs, monitoring_handlers>>[i]

\* the text each replacement adds to its marker
Generated(i) == <<MonitoringImports, MonitoringInits, MonitoringDefs, MonitoringHandlers>>[i]

OkLine(i) ==
    <<"[OK] Added imports", "[OK] Added initializations",
      "[OK] Added tool definitions", "[OK] Added handlers">>[i]

SuccessLine == "\n[SUCCESS] Monitoring tools added - PR #65 (18) + PR #71 (3) = 21 tools"

\* the target documents the model starts from: up to MaxSegs pieces, each a
\* marker or a piece of other text
Segments ==
    {imports_marker, init_marker, def_marker, handler_marker,
     <<OtherText>>, <<DisabledTail>>}

Docs == {Concat(ss) : ss \in UNION {[1..k -> Segments] : k \in 0..MaxSegs}}

----------------------------------------------------------------------------
(* add_monitoring.py: the script, statement by statement.                  *)

\* the state before the script is started; the other two programs are not
\* running
InitPatch ==
    /\ file \in Docs
    /\ content = <<>>
    /\ pc = "read"
    /\ log = <<>>
    /\ run = 1
    /\ inputs = <<>>
    /\ manifest = <<>> /\ fs = <<>> /\ gpc = "off" /\ cat = 0
    /\ all_imports = <<>> /\ all_defs = <<>> /\ all_cases = <<>> /\ out = <<>>
    /\ slug = <<>> /\ pascal = <<>> /\ camel = <<>> /\ npc = "off"

\* with open(..., 'r') as f: content = f.read()
ReadTarget ==
    /\ pc = "read"
    /\ content' = file
    /\ inputs' = Append(inputs, file)
    /\ pc' = "imports"
    /\ UNCHANGED <<file, log, run, genVars, nameVars>>

\* slip: a step that gives up when its marker is not in the buffer
PatchStepStopsOnMiss(i) ==
    /\ pc = Steps[i]
    /\ content' = str_replace(content, Marker(i), Replacement(i))
    /\ log' = Append(log, OkLine(i))
    /\ pc' = IF ~Occurs(Marker(i), content) THEN "done"
             ELSE IF i < 4 THEN Steps[i + 1] ELSE "write"
    /\ UNCHANGED <<file, run, inputs, genVars, nameVars>>

\* content = content.replace(marker, replacement); print("[OK] ...")
PatchStep(i) ==
    /\ pc = Steps[i]
    /\ content' = str_replace(content, Marker(i), Replacement(i))
    /\ log' = Append(log, OkLine(i))
    /\ pc' = IF i < 4 THEN Steps[i + 1] ELSE "write"
    /\ UNCHANGED <<file, run, inputs, genVars, nameVars>>

PatchImports == PatchStep(1)

PatchInits == PatchStep(2)

PatchDefs == PatchStep(3)

PatchHandlers == PatchStep(4)

\* with open(..., 'w') as f: f.write(content); print("[SUCCESS] ...")
WriteTarget ==
    /\ pc = "write"
    /\ file' = content
    /\ log' = Append(log, SuccessLine)
    /\ pc' = "done"
    /\ UNCHANGED <<content, run, inputs, genVars, nameVars>>

\* the operator starts the script again, on the document it left
Rerun ==
    /\ pc = "done"
    /\ run < MaxRuns
    /\ run' = run + 1
    /\ pc' = "read"
    /\ content' = <<>>
    /\ log' = <<>>
    /\ UNCHANGED <<file, inputs, genVars, nameVars>>

NextPatch ==
    \/ ReadTarget
    \/ PatchImports
    \/ PatchInits
    \/ PatchDefs
    \/ PatchHandlers
    \/ WriteTarget
    \/ Rerun

SpecPatch == InitPatch /\ [][NextPatch]_vars

----------------------------------------------------------------------------
(* add_monitoring.py: the claims.                                          *)

AtStep(i) == pc = Steps[i]

\* the markers that do not occur in document d
Absent(d) == {i \in 1..4 : ~Occurs(Marker(i), d)}

\* a document no run has patched: each marker occurs exactly once
Pristine(d) == \A i \in 1..4 : CountOf(Marker(i), d) = 1

\* C1: a patch step prints its success line only when its marker occurs in
\* the buffer at that step; when the marker is absent the step does not
\* print the success line.
C1_SuccessOnlyWhenAnchorOccurs ==
    [][\A i \in 1..4 :
          (AtStep(i) /\ ~Occurs(Marker(i), content)) => log' # Append(log, OkLine(i))]_vars

\* C2: a patch step replaces the first occurrence of its marker and nothing
\* else: later occurrences stay as they were.
C2_OnlyFirstOccurrenceReplaced ==
    [][\A i \in 1..4 :
          AtStep(i) => content' = ReplaceFirst(content, Marker(i), Replacement(i))]_vars

\* C4: when exactly one marker is absent from the document the run read,
\* the step of the absent marker leaves the buffer as it is and goes on to
\* the next step, each other step finds its marker in the buffer and puts
\* its replacement there, the steps run in the order imports,
\* initializations, definitions, handlers, and the buffer is written back.
C4_OneMissingAnchorDoesNotAbort ==
    [][Cardinality(Absent(file)) = 1 =>
          /\ \A i \in 1..4 : AtStep(i) =>
                /\ pc' = IF i < 4 THEN Steps[i + 1] ELSE "write"
                /\ i \in Absent(file) => content' = content
                /\ i \notin Absent(file) =>
                      /\ Occurs(Marker(i), content)
                      /\ content' # content
                      /\ Occurs(Replacement(i), content')
                      /\ CountOf(<<Generated(i)>>, content') = CountOf(Marker(i), file)
          /\ pc = "write" =>
                /\ file' = content
                /\ pc' = "done"
                /\ \A i \in 1..4 :
                      Occurs(<<Generated(i)>>, content) <=> i \notin Absent(file)]_vars

\* C4's case: a run over a document with exactly one marker absent has
\* written the document back, changed.
C4_Witness ==
    /\ pc = "done"
    /\ run = 1
    /\ Cardinality(Absent(inputs[1])) = 1
    /\ file # inputs[1]

\* C6 as stated: the replacement of the step the script is at begins with
\* that step's marker.
C6_ReplacementBeginsWithAnchor ==
    \A i \in 1..4 : AtStep(i) => IsPrefix(Marker(i), Replacement(i))

\* the replacement is the marker with the generated text put into it: after
\* the marker's first chunk (imports, initializations, definitions) or in
\* front of the whole marker (handlers)
WrapsMarker(i) ==
    /\ Len(Replacement(i)) = Len(Marker(i)) + 1
    /\ IF i < 4
       THEN /\ IsPrefix(<<Head(Marker(i)), Generated(i)>>, Replacement(i))
            /\ IsSuffix(Tail(Marker(i)), Replacement(i))
            /\ ~Occurs(Marker(i), Replacement(i))
       ELSE /\ Head(Replacement(i)) = Generated(i)
            /\ IsSuffix(Marker(i), Replacement(i))

\* C6, amended: every replacement is its marker with the generated text
\* inserted (inside the marker for the first three steps, so the marker no
\* longer occurs verbatim; in front of it for handlers), and after a step
\* whose marker was found the buffer holds the replacement at the position
\* where the marker was first found.
C6_ReplacementWrapsAnchor ==
    [][\A i \in 1..4 :
          (AtStep(i) /\ Occurs(Marker(i), content)) =>
              LET p == Min(Positions(Marker(i), content))
              IN /\ WrapsMarker(i)
                 /\ p \in Positions(Replacement(i), content')
                 /\ SubSeq(content', 1, p - 1) = SubSeq(content, 1, p - 1)]_vars

\* C6's case: the handlers step has just put its replacement into a buffer
\* that held the marker.
C6_Witness ==
    /\ pc = "write"
    /\ Occurs(handler_marker, inputs[run])
    /\ Occurs(monitoring_handlers, content)
    /\ Occurs(monitoring_imports, content)

\* C10 as stated: the second run over the output of a run over a pristine
\* document writes back what it read.
C10_SecondRunIsNoOp ==
    (run = 2 /\ pc = "done" /\ Pristine(inputs[1])) => file = inputs[2]

\* C10, amended: in the second run over the output of a run over a pristine
\* document the imports, initializations and definitions steps change
\* nothing, and the handlers step inserts the handler cases a second time.
C10_SecondRunRepeatsOnlyHandlers ==
    (run = 2 /\ pc # "read" /\ Pristine(inputs[1])) =>
        /\ pc \in {"imports", "inits", "defs", "handlers"} => content = inputs[2]
        /\ pc \in {"write", "done"} =>
              /\ content = ReplaceFirst(inputs[2], handler_marker, monitoring_handlers)
              /\ CountOf(<<MonitoringImports>>, content) = 1
              /\ CountOf(<<MonitoringInits>>, content) = 1
              /\ CountOf(<<MonitoringDefs>>, content) = 1
              /\ CountOf(<<MonitoringHandlers>>, content) = 2
        /\ pc = "done" => file = content /\ file # inputs[2]

\* C10's case: the second run over the output of a run over a pristine
\* document is done.
C10_Witness == run = 2 /\ pc = "done" /\ Pristine(inputs[1])

----------------------------------------------------------------------------
(* register-all-missing-tools.py: characters and identifiers.  A slug, a   *)
(* category name and an identifier are sequences of chunks: one character  *)
(* each, but for the literal pieces "run", "TOOL" and "_DEFINITION".       *)

LowerLetters == <<"a", "b", "c", "f", "g", "h", "x", "y">>

UpperLetters == <<"A", "B", "C", "F", "G", "H", "X", "Y">>

CapitalLetters == {UpperLetters[i] : i \in 1..Len(UpperLetters)}

IndexIn(c, letters) == {i \in 1..Len(letters) : letters[i] = c}

IsLetter(c) == IndexIn(c, LowerLetters) # {} \/ IndexIn(c, UpperLetters) # {}

\* str.upper() and str.lower() of one character
Upper(c) ==
    IF IndexIn(c, LowerLetters) # {}
    THEN UpperLetters[CHOOSE i \in IndexIn(c, LowerLetters) : TRUE]
    ELSE c

Lower(c) ==
    IF IndexIn(c, UpperLetters) # {}
    THEN LowerLetters[CHOOSE i \in IndexIn(c, UpperLetters) : TRUE]
    ELSE c

str_upper(s) == [i \in 1..Len(s) |-> Upper(s[i])]

\* str.capitalize(): the first character upper-cased, the rest lower-cased
capitalize(w) ==
    [i \in 1..Len(w) |-> IF i = 1 THEN Upper(w[i]) ELSE Lower(w[i])]

\* str.title(): a letter is upper-cased when no letter precedes it, and
\* lower-cased otherwise
str_title(s) ==
    [i \in 1..Len(s) |->
        IF ~IsLetter(s[i]) THEN s[i]
        ELSE IF i = 1 \/ ~IsLetter(s[i - 1]) THEN Upper(s[i])
        ELSE Lower(s[i])]

\* name.split('-')
RECURSIVE split_hyphen(_)
split_hyphen(s) ==
    IF Positions(<<"-">>, s) = {} THEN <<s>>
    ELSE LET i == Min(Positions(<<"-">>, s))
         IN <<SubSeq(s, 1, i - 1)>> \o split_hyphen(Drop(s, i))

kebab_to_pascal(name) ==
    LET words == split_hyphen(name)
    IN Concat([i \in 1..Len(words) |-> capitalize(words[i])])

\* slip: the first word is lower-cased but so are the words after it
kebab_to_camel_all_lower(name) ==
    LET words == split_hyphen(name)
    IN words[1] \o Concat([i \in 1..(Len(words) - 1) |-> words[i + 1]])

kebab_to_camel(name) ==
    LET words == split_hyphen(name)
    IN words[1] \o Concat([i \in 1..(Len(words) - 1) |-> capitalize(words[i + 1])])

----------------------------------------------------------------------------
(* register-all-missing-tools.py: tool modules and the file system.        *)
(*                                                                         *)
(* The text of a tool module is the sequence of the declarations the       *)
(* script's regular expressions can see in it:                             *)
(*   [kind |-> "const", id, init]   export const <id> = ...; init is       *)
(*                                  "name" when the initializer opens      *)
(*                                  with "{ name:", "other" otherwise      *)
(*   [kind |-> "function", id]      export (async) function <id>           *)
(*   [kind |-> "name", val]         a field literal  name: '<val>'         *)
(* Generated text is a sequence of fragments, header lines and NL.         *)

Const(id, init) == [kind |-> "const", id |-> id, init |-> init]

Function(id) == [kind |-> "function", id |-> id]

NameField(val) == [kind |-> "name", val |-> val]

Missing == [exists |-> FALSE, text |-> <<>>]

FileOf(text) == [exists |-> TRUE, text |-> text]

\* the categories and tool slugs manifests are made of
CategoryNames == {<<"a", "-", "b">>, <<"c">>}

ToolNames == {<<"f", "-", "g">>, <<"h">>}

\* the tool modules found on disk
ModuleSources ==
    { \* the convention: a definition constant, its name field, a run function
      <<Const(<<"X", "_", "TOOL", "_DEFINITION">>, "name"), NameField(<<"x">>),
        Function(<<"run", "X">>)>>,
      \* a definition constant with another name, and no run function
      <<Const(<<"y", "D", "e", "f">>, "name"), NameField(<<"y">>),
        Function(<<"e", "x", "e", "c">>)>>,
      \* nothing the patterns recognize
      <<Const(<<"TOOL">>, "other")>> }

ToolPath(category, tool) == <<"src/tools/", category, "/", tool, ".ts">>

ServerFile == <<"src/server/index.ts">>

ImportsFile == <<"generated-imports.txt">>

DefinitionsFile == <<"generated-definitions.txt">>

CasesFile == <<"generated-cases.txt">>

ReviewFiles == {ImportsFile, DefinitionsFile, CasesFile}

ModulePaths == {ToolPath(c, t) : c \in CategoryNames, t \in ToolNames}

Paths == ModulePaths \cup {ServerFile} \cup ReviewFiles

\* sequences without repetition of at most n elements of S
Arrangements(S, n) ==
    {q \in UNION {[1..k -> S] : k \in 0..n} :
        \A i, j \in 1..Len(q) : q[i] = q[j] => i = j}

ToolLists == UNION {[1..k -> ToolNames] : k \in 0..MaxTools}

\* insertion-ordered dicts category -> tool list: the keys are distinct
Manifests ==
    UNION {{[i \in 1..Len(cs) |-> [category |-> cs[i], tools |-> ts[i]]] :
                ts \in [1..Len(cs) -> ToolLists]} :
           cs \in Arrangements(CategoryNames, MaxCats)}

\* the module paths manifest m names
PathsOf(m) ==
    UNION {{ToolPath(m[k].category, m[k].tools[i]) : i \in 1..Len(m[k].tools)} :
           k \in 1..Len(m)}

----------------------------------------------------------------------------
(* register-all-missing-tools.py: the regular expressions.  re.search      *)
(* gives the first match in the text; a result is [found, group].          *)

NoMatch == [found |-> FALSE, group |-> <<>>]

Match(g) == [found |-> TRUE, group |-> g]

\* (\w+TOOL(?:_DEFINITION)?) : one word character at least, then TOOL,
\* then _DEFINITION or nothing
EndsInTool(id) ==
    \/ Len(id) >= 2 /\ id[Len(id)] = "TOOL"
    \/ Len(id) >= 3 /\ id[Len(id) - 1] = "TOOL" /\ id[Len(id)] = "_DEFINITION"

\* re.search(r'export const (\w+TOOL(?:_DEFINITION)?)\s*=', content)
search_tool_def(text) ==
    LET hits == {i \in 1..Len(text) : text[i].kind = "const" /\ EndsInTool(text[i].id)}
    IN IF hits = {} THEN NoMatch ELSE Match(text[Min(hits)].id)

\* re.search(r'export const (\w+)\s*=\s*{\s*name:', content)
search_alt_def(text) ==
    LET hits == {i \in 1..Len(text) : text[i].kind = "const" /\ text[i].init = "name"}
    IN IF hits = {} THEN NoMatch ELSE Match(text[Min(hits)].id)

\* re.search(r'export (?:async )?function (run\w+)', content)
search_run_func(text) ==
    LET hits == {i \in 1..Len(text) :
                    /\ text[i].kind = "function"
                    /\ Len(text[i].id) >= 2
                    /\ text[i].id[1] = "run"}
    IN IF hits = {} THEN NoMatch ELSE Match(text[Min(hits)].id)

\* re.search(r"name:\s*['\"]([^'\"]+)['\"]", content)
search_name(text) ==
    LET hits == {i \in 1..Len(text) : text[i].kind = "name" /\ text[i].val # <<>>}
    IN IF hits = {} THEN NoMatch ELSE Match(text[Min(hits)].val)

\* the primary pattern, and the alternate one when it finds nothing
find_tool_def(text) ==
    IF search_tool_def(text).found THEN search_tool_def(text)
    ELSE search_alt_def(text)

----------------------------------------------------------------------------
(* register-all-missing-tools.py: the generators.                          *)

NL == [kind |-> "nl"]

\* "\n".join(strings)
RECURSIVE join_nl(_)
join_nl(strings) ==
    IF strings = <<>> THEN <<>>
    ELSE IF Len(strings) = 1 THEN Head(strings)
    ELSE Head(strings) \o <<NL>> \o join_nl(Tail(strings))

\* tool.replace('-', '_').upper() + "_TOOL_DEFINITION"
synthesized_def_name(tool) ==
    str_upper(str_replace(tool, <<"-">>, <<"_">>)) \o <<"_", "TOOL", "_DEFINITION">>

\* "run" + kebab_to_pascal(tool)
synthesized_run_name(tool) == <<"run">> \o kebab_to_pascal(tool)

ImportFragment(run_name, def_name, category, tool) ==
    [kind |-> "import", run |-> run_name, def |-> def_name,
     category |-> category, tool |-> tool]

RegistryFragment(def_name) == [kind |-> "registry", def |-> def_name]

CaseFragment(tool_name, run_func) == [kind |-> "case", key |-> tool_name, run |-> run_func]

Warning(path) == [kind |-> "warning", path |-> path]

\* the import statement of one tool whose module is on disk
import_of(category, tool) ==
    LET text == fs[ToolPath(category, tool)].text
        tool_def_match == find_tool_def(text)
        run_func_match == search_run_func(text)
        actual_def_name == IF tool_def_match.found THEN tool_def_match.group
                           ELSE synthesized_def_name(tool)
        actual_run_name == IF run_func_match.found THEN run_func_match.group
                           ELSE synthesized_run_name(tool)
    IN ImportFragment(actual_run_name, actual_def_name, category, tool)

\* the list generate_imports builds
RECURSIVE imports_list(_, _)
imports_list(category, tools) ==
    IF tools = <<>> THEN <<>>
    ELSE (IF ~fs[ToolPath(category, Head(tools))].exists THEN <<>>
          ELSE <<<<import_of(category, Head(tools))>>>>)
         \o imports_list(category, Tail(tools))

generate_imports(category, tools) == join_nl(imports_list(category, tools))

\* slip: a missing module is skipped without a word
imports_warnings_none(category, tools) == <<>>

\* the warnings generate_imports prints, in order
RECURSIVE imports_warnings(_, _)
imports_warnings(category, tools) ==
    IF tools = <<>> THEN <<>>
    ELSE (IF ~fs[ToolPath(category, Head(tools))].exists
          THEN <<Warning(ToolPath(category, Head(tools)))>>
          ELSE <<>>)
         \o imports_warnings(category, Tail(tools))

\* the case block of one tool whose module is on disk
case_of(category, tool) ==
    LET text == fs[ToolPath(category, tool)].text
        name_match == search_name(text)
        run_func_match == search_run_func(text)
        tool_name == IF name_match.found THEN name_match.group
                     ELSE str_replace(tool, <<"-">>, <<"_">>)
        run_func == IF run_func_match.found THEN run_func_match.group
                    ELSE synthesized_run_name(tool)
    IN CaseFragment(tool_name, run_func)

RECURSIVE cases_list(_, _)
cases_list(category, tools) ==
    IF tools = <<>> THEN <<>>
    ELSE (IF ~fs[ToolPath(category, Head(tools))].exists THEN <<>>
          ELSE <<<<case_of(category, Head(tools))>>>>)
         \o cases_list(category, Tail(tools))

generate_case_statements(category, tools) == join_nl(cases_list(category, tools))

\* the registry lines of one tool whose module is on disk: one when a
\* definition constant is found, none otherwise
defs_of(category, tool) ==
    LET tool_def_match == find_tool_def(fs[ToolPath(category, tool)].text)
    IN IF tool_def_match.found
       THEN <<<<RegistryFragment(tool_def_match.group)>>>>
       ELSE <<>>

RECURSIVE defs_list(_, _)
defs_list(category, tools) ==
    IF tools = <<>> THEN <<>>
    ELSE (IF ~fs[ToolPath(category, Head(tools))].exists THEN <<>>
          ELSE defs_of(category, Head(tools)))
         \o defs_list(category, Tail(tools))

generate_tool_definitions(category, tools) == join_nl(defs_list(category, tools))

\* f"// {category.replace('-', ' ').title()} tools", after `indent` blanks
HeaderLine(indent, category) ==
    [kind |-> "header", indent |-> indent,
     title |-> str_title(str_replace(category, <<"-">>, <<" ">>))]

----------------------------------------------------------------------------
(* register-all-missing-tools.py: main().                                  *)

InitGen ==
    /\ manifest \in Manifests
    /\ \E server \in {Missing, FileOf(<<"index.ts">>)},
          mods \in [PathsOf(manifest) -> {Missing} \cup {FileOf(src) : src \in ModuleSources}] :
          fs = [p \in Paths |->
                   IF p = ServerFile THEN server
                   ELSE IF p \in PathsOf(manifest) THEN mods[p]
                   ELSE Missing]
    /\ gpc = "start"
    /\ cat = 0
    /\ all_imports = <<>>
    /\ all_defs = <<>>
    /\ all_cases = <<>>
    /\ out = <<>>
    /\ file = <<>> /\ content = <<>> /\ pc = "off"
    /\ log = <<>> /\ run = 0 /\ inputs = <<>>
    /\ slug = <<>> /\ pascal = <<>> /\ camel = <<>> /\ npc = "off"

\* content = server_file.read_text(); print("Generating ..."); the three
\* lists are set up.  A server file that is not there ends the run.
Main_ReadServer ==
    /\ gpc = "start"
    /\ IF fs[ServerFile].exists
       THEN /\ gpc' = "loop"
            /\ cat' = 1
            /\ out' = Append(out, [kind |-> "generating"])
       ELSE /\ gpc' = "aborted"
            /\ UNCHANGED <<cat, out>>
    /\ UNCHANGED <<manifest, fs, all_imports, all_defs, all_cases, patchVars, nameVars>>

\* slip: each category's comment line is appended after its fragments
Main_ProcessCategory_header_last ==
    /\ gpc = "loop"
    /\ cat <= Len(manifest)
    /\ LET category == manifest[cat].category
           tools == manifest[cat].tools
       IN /\ out' = out \o <<[kind |-> "processing", category |-> category,
                              n |-> Len(tools)]>>
                        \o imports_warnings(category, tools)
          /\ all_imports' = all_imports \o
                 << generate_imports(category, tools), <<NL, HeaderLine(0, category)>> >>
          /\ all_defs' = all_defs \o
                 << generate_tool_definitions(category, tools), <<HeaderLine(6, category)>> >>
          /\ all_cases' = all_cases \o
                 << generate_case_statements(category, tools), <<NL, HeaderLine(6, category)>> >>
    /\ cat' = cat + 1
    /\ UNCHANGED <<manifest, fs, gpc, patchVars, nameVars>>

\* one round of: for category, tools in UNREGISTERED_TOOLS.items()
Main_ProcessCategory ==
    /\ gpc = "loop"
    /\ cat <= Len(manifest)
    /\ LET category == manifest[cat].category
           tools == manifest[cat].tools
       IN /\ out' = out \o <<[kind |-> "processing", category |-> category,
                              n |-> Len(tools)]>>
                        \o imports_warnings(category, tools)
          /\ all_imports' = all_imports \o
                 << <<NL, HeaderLine(0, category)>>, generate_imports(category, tools) >>
          /\ all_defs' = all_defs \o
                 << <<HeaderLine(6, category)>>, generate_tool_definitions(category, tools) >>
          /\ all_cases' = all_cases \o
                 << <<NL, HeaderLine(6, category)>>, generate_case_statements(category, tools) >>
    /\ cat' = cat + 1
    /\ UNCHANGED <<manifest, fs, gpc, patchVars, nameVars>>

\* slip: the imports are written over the server file as well
Main_WriteReviewFiles_and_server ==
    /\ gpc = "loop"
    /\ cat > Len(manifest)
    /\ fs' = [fs EXCEPT ![ImportsFile] = FileOf(join_nl(all_imports)),
                        ![DefinitionsFile] = FileOf(join_nl(all_defs)),
                        ![CasesFile] = FileOf(join_nl(all_cases)),
                        ![ServerFile] = FileOf(join_nl(all_imports) \o fs[ServerFile].text)]
    /\ out' = out \o <<[kind |-> "ok"],
                       [kind |-> "stats", blocks |-> Len(all_imports)]>>
    /\ gpc' = "done"
    /\ UNCHANGED <<manifest, cat, all_imports, all_defs, all_cases, patchVars, nameVars>>

\* the three write_text calls and the closing prints
Main_WriteReviewFiles ==
    /\ gpc = "loop"
    /\ cat > Len(manifest)
    /\ fs' = [fs EXCEPT ![ImportsFile] = FileOf(join_nl(all_imports)),
                        ![DefinitionsFile] = FileOf(join_nl(all_defs)),
                        ![CasesFile] = FileOf(join_nl(all_cases))]
    /\ out' = out \o <<[kind |-> "ok"],
                       [kind |-> "stats", blocks |-> Len(all_imports)]>>
    /\ gpc' = "done"
    /\ UNCHANGED <<manifest, cat, all_imports, all_defs, all_cases, patchVars, nameVars>>

NextGen ==
    \/ Main_ReadServer
    \/ Main_ProcessCategory
    \/ Main_WriteReviewFiles

SpecGen == InitGen /\ [][NextGen]_vars

----------------------------------------------------------------------------
(* register-all-missing-tools.py: the claims.                              *)

\* the positions of the category comment lines in a text, and the k-th
HeaderPos(text) == {i \in 1..Len(text) : text[i].kind = "header"}

NthHeader(text, k) ==
    CHOOSE i \in HeaderPos(text) : Cardinality({j \in HeaderPos(text) : j <= i}) = k

IsFragment(c) == c.kind \notin {"nl", "header"}

\* the fragments between the k-th comment line and the next one
Block(text, k) ==
    LET from == NthHeader(text, k)
        to == IF k < Cardinality(HeaderPos(text)) THEN NthHeader(text, k + 1)
              ELSE Len(text) + 1
    IN SelectSeq(SubSeq(text, from + 1, to - 1), IsFragment)

\* the tools of the k-th category whose module is on disk, in manifest order
Existing(k) ==
    LET OnDisk(t) == fs[ToolPath(manifest[k].category, t)].exists
    IN SelectSeq(manifest[k].tools, OnDisk)

\* those of them in whose module a definition constant is found
WithDefinition(k) ==
    LET Found(t) == find_tool_def(fs[ToolPath(manifest[k].category, t)].text).found
    IN SelectSeq(Existing(k), Found)

\* the manifest entries that name the module at path p
EntriesAt(p) ==
    {<<k, i>> \in (1..Len(manifest)) \X (1..MaxTools) :
        i <= Len(manifest[k].tools)
        /\ ToolPath(manifest[k].category, manifest[k].tools[i]) = p}

MissingEntries ==
    {e \in (1..Len(manifest)) \X (1..MaxTools) :
        e[2] <= Len(manifest[e[1]].tools)
        /\ ~fs[ToolPath(manifest[e[1]].category, manifest[e[1]].tools[e[2]])].exists}

\* title is category with its hyphens turned to blanks and the first letter
\* of every word in upper case
IsTitleOf(title, category) ==
    /\ Len(title) = Len(category)
    /\ \A i \in 1..Len(category) :
          IF category[i] = "-" THEN title[i] = " "
          ELSE IF i = 1 \/ category[i - 1] = "-"
               THEN title[i] \in CapitalLetters /\ Lower(title[i]) = category[i]
          ELSE title[i] = category[i]

ImportsText == fs[ImportsFile].text

DefinitionsText == fs[DefinitionsFile].text

CasesText == fs[CasesFile].text

\* C3: every module on disk gives one fragment to each of the three
\* artifacts, and its registry line names the identifier its import
\* statement imports (the slug-derived one when no constant is found).
C3_OneFragmentPerArtifact ==
    gpc = "done" =>
        \A k \in 1..Len(manifest) :
            /\ Len(Block(ImportsText, k)) = Len(Existing(k))
            /\ Len(Block(CasesText, k)) = Len(Existing(k))
            /\ Len(Block(DefinitionsText, k)) = Len(Existing(k))
            /\ \A j \in 1..Len(Existing(k)) :
                  Block(DefinitionsText, k)[j].def = Block(ImportsText, k)[j].def

\* C5: a manifest entry whose module is not on disk adds no fragment to any
\* of the three artifacts and gets one warning; the run is not stopped by
\* it (only a server file that cannot be read stops a run) and the three
\* review files are written.
C5_MissingModuleSkipped ==
    /\ gpc = "aborted" => ~fs[ServerFile].exists
    /\ gpc = "done" =>
          /\ \A p \in ReviewFiles : fs[p].exists
          /\ \A k \in 1..Len(manifest) :
                /\ Len(Block(ImportsText, k)) = Len(Existing(k))
                /\ Len(Block(CasesText, k)) = Len(Existing(k))
                /\ Len(Block(DefinitionsText, k)) <= Len(Existing(k))
          /\ \A e \in MissingEntries :
                LET category == manifest[e[1]].category
                    tool == manifest[e[1]].tools[e[2]]
                    p == ToolPath(category, tool)
                IN /\ \A i \in 1..Len(ImportsText) :
                         ImportsText[i].kind = "import" =>
                             <<ImportsText[i].category, ImportsText[i].tool>> # <<category, tool>>
                   /\ CountOf(<<Warning(p)>>, out) = Cardinality(EntriesAt(p))
          /\ Cardinality({i \in 1..Len(out) : out[i].kind = "warning"})
                = Cardinality(MissingEntries)

\* C5's case: a run over a manifest that names a missing module and a
\* module on disk is done.
C5_Witness ==
    /\ gpc = "done"
    /\ MissingEntries # {}
    /\ \E k \in 1..Len(manifest) : Existing(k) # <<>> /\ Len(Existing(k)) < Len(manifest[k].tools)

\* C7: in each of the three artifacts there is one comment line per
\* category, in manifest order, titled after the category; no fragment comes
\* before the first comment line; and the fragments after a category's
\* comment line are those of its modules, in manifest order.
C7_ManifestOrder ==
    gpc = "done" =>
        /\ \A text \in {ImportsText, DefinitionsText, CasesText} :
              LET heads == HeaderPos(text)
              IN /\ Cardinality(heads) = Len(manifest)
                 /\ \A i \in 1..Len(text) :
                       IsFragment(text[i]) => \E h \in heads : h < i
                 /\ \A k \in 1..Len(manifest) :
                       IsTitleOf(text[NthHeader(text, k)].title, manifest[k].category)
        /\ \A k \in 1..Len(manifest) :
              LET category == manifest[k].category
                  Source(t) == fs[ToolPath(category, t)].text
                  existing == Existing(k)
                  defined == WithDefinition(k)
                  imports == Block(ImportsText, k)
                  defs == Block(DefinitionsText, k)
                  cases == Block(CasesText, k)
              IN /\ [j \in 1..Len(imports) |-> <<imports[j].category, imports[j].tool>>]
                    = [j \in 1..Len(existing) |-> <<category, existing[j]>>]
                 /\ [j \in 1..Len(defs) |-> defs[j].def]
                    = [j \in 1..Len(defined) |-> find_tool_def(Source(defined[j])).group]
                 /\ cases = [j \in 1..Len(existing) |-> case_of(category, existing[j])]

\* C7's case: a run over two categories, the first with a hyphen in its
\* name and two modules on disk that give different fragments, is done.
C7_Witness ==
    /\ gpc = "done"
    /\ Len(manifest) = 2
    /\ manifest[1].category = <<"a", "-", "b">>
    /\ Len(Block(DefinitionsText, 1)) = 2
    /\ Block(DefinitionsText, 1)[1] # Block(DefinitionsText, 1)[2]
    /\ Block(CasesText, 1)[1] # Block(CasesText, 1)[2]
    /\ Len(Block(ImportsText, 2)) >= 1

\* C8: a run changes no file but the three review files: the server file
\* and every tool module stay as they were.
C8_OnlyReviewFilesWritten ==
    [][/\ DOMAIN fs' = DOMAIN fs
       /\ \A p \in Paths \ ReviewFiles : fs'[p] = fs[p]]_vars

\* C8's case: a run that found the server file and a tool module has
\* written the review files.
C8_Witness ==
    /\ gpc = "done"
    /\ fs[ServerFile].exists
    /\ \E p \in ModulePaths : fs[p].exists
    /\ \E p \in PathsOf(manifest) : ~fs[p].exists
    /\ \A p \in ReviewFiles : fs[p].exists

----------------------------------------------------------------------------
(* The case conversions called on a slug.                                  *)

SlugChars == {"a", "b", "-"}

Slugs == UNION {[1..n -> SlugChars] : n \in 1..MaxSlugLen}

InitNames ==
    /\ slug \in Slugs
    /\ pascal = <<>>
    /\ camel = <<>>
    /\ npc = "pascal"
    /\ file = <<>> /\ content = <<>> /\ pc = "off"
    /\ log = <<>> /\ run = 0 /\ inputs = <<>>
    /\ manifest = <<>> /\ fs = <<>> /\ gpc = "off" /\ cat = 0
    /\ all_imports = <<>> /\ all_defs = <<>> /\ all_cases = <<>> /\ out = <<>>

CallPascal ==
    /\ npc = "pascal"
    /\ pascal' = kebab_to_pascal(slug)
    /\ npc' = "camel"
    /\ UNCHANGED <<slug, camel, patchVars, genVars>>

CallCamel ==
    /\ npc = "camel"
    /\ camel' = kebab_to_camel(slug)
    /\ npc' = "done"
    /\ UNCHANGED <<slug, pascal, patchVars, genVars>>

NextNames ==
    \/ CallPascal
    \/ CallCamel

SpecNames == InitNames /\ [][NextNames]_vars

\* the hyphens among the first i characters of s
HyphensUpTo(s, i) == Cardinality({j \in 1..i : s[j] = "-"})

\* C9: the UpperCamelCase form of a slug has no hyphen, keeps every other
\* character in place, and has a capital letter where a word of the slug
\* began; the lowerCamelCase form is the same text but for the case of its
\* first character, which is the slug's own.
C9_CaseConversions ==
    npc = "done" =>
        /\ \A i \in 1..Len(pascal) : pascal[i] # "-"
        /\ Len(pascal) = Len(slug) - HyphensUpTo(slug, Len(slug))
        /\ \A i \in 1..Len(slug) :
              slug[i] # "-" =>
                  LET c == pascal[i - HyphensUpTo(slug, i)]
                  IN IF i = 1 \/ slug[i - 1] = "-"
                     THEN c = Upper(slug[i]) /\ c \in CapitalLetters
                     ELSE c = slug[i]
        /\ Len(camel) = Len(pascal)
        /\ \A i \in 2..Len(camel) : camel[i] = pascal[i]
        /\ Len(camel) >= 1 => Lower(camel[1]) = Lower(pascal[1])
        /\ slug[1] # "-" => camel[1] = slug[1] /\ pascal[1] = Upper(slug[1])

\* C9's case: a slug of two words has been converted both ways.
C9_Witness ==
    /\ npc = "done"
    /\ slug = <<"a", "b", "-", "b">>
    /\ pascal = <<"A", "b", "B">>
    /\ camel = <<"a", "b", "B">>

====
